---- MODULE Spec2Model ----
(***************************************************************************)
(* Model of multid: the bounded 2d index type BoundedIx2 (src/ix.rs), its  *)
(* iterators (src/ix.rs, mod iterators) and the 2d vector V2 with its      *)
(* iterators (src/v.rs).                                                   *)
(*                                                                         *)
(* One behaviour is one caller using one instantiation <N_ROWS, N_COLS>:   *)
(* it holds a coordinate `ix`, a vector `data`, and at most one iterator   *)
(* `iter` at a time, which it drains or drops before it makes another call *)
(* (the iterators share no state with the coordinate, and the vector is    *)
(* borrowed while one of its iterators lives).  `call` records the last    *)
(* call made and what it returned, `out` the items the current iterator    *)
(* has yielded so far, `ended` whether it has returned None, and `status`  *)
(* whether the program is still running (a panic or a call that never      *)
(* returns ends it), `writes` how many writes the caller has made.         *)
(*                                                                         *)
(* Spec is the caller that reads: coordinates, accessors and iterators.    *)
(* GridSpec is the caller that builds, writes and grows the vector.        *)
(***************************************************************************)
EXTENDS Integers, Sequences, FiniteSets, TLC

VARIABLES N_ROWS, N_COLS, data, ix, call, iter, out, ended, status, writes

vars == <<N_ROWS, N_COLS, data, ix, call, iter, out, ended, status, writes>>

\* largest number of rows / columns instantiated
MaxDim == 3
\* most items a caller takes from one V2Neighbors iterator before dropping it
MaxDrain == 9
\* most writes a caller makes to the elements of its vector
MaxWrites == 1

\* usize::MAX.  TLC's integers are 32 bit, so the model uses the largest value
\* TLC represents; every index of the model is far below it either way.
USIZE_MAX == 2147483647

(***************************************************************************)
(* Option<T> and the outcome of an indexing expression                     *)
(***************************************************************************)
None == [tag |-> "None"]
Some(v) == [tag |-> "Some", val |-> v]
\* the call panicked (slice index out of range)
Panic == [tag |-> "Panic"]
\* the call never returned
Diverge == [tag |-> "Diverge"]

is_some(o) == o.tag = "Some"
is_none(o) == o.tag = "None"

\* Option::filter
filter(o, P(_)) == IF is_some(o) /\ P(o.val) THEN o ELSE None
\* Option::and_then
and_then(o, F(_)) == IF is_some(o) THEN F(o.val) ELSE None

(***************************************************************************)
(* BoundedIx2<N_ROWS, N_COLS>                                              *)
(***************************************************************************)
BoundedIx2(r, c) == [row_ix |-> r, col_ix |-> c]

in_bounds(i) == i.col_ix < N_COLS /\ i.row_ix < N_ROWS

BoundedIx2_min == BoundedIx2(0, 0)
BoundedIx2_max == BoundedIx2(N_ROWS - 1, N_COLS - 1)
BoundedIx2_default == BoundedIx2(0, 0)

BoundedIx2_new_le(row_ix, col_ix) ==
    IF col_ix <= N_COLS /\ row_ix <= N_ROWS
    THEN Some(BoundedIx2(row_ix, col_ix))
    ELSE None
BoundedIx2_new(row_ix, col_ix) ==
    IF col_ix < N_COLS /\ row_ix < N_ROWS
    THEN Some(BoundedIx2(row_ix, col_ix))
    ELSE None

\* usize::cmp
usize_cmp(a, b) == IF a < b THEN "Less" ELSE IF a > b THEN "Greater" ELSE "Equal"

cmp_cols_first(self, other) ==
    CASE usize_cmp(self.col_ix, other.col_ix) = "Less" -> "Less"
      [] usize_cmp(self.col_ix, other.col_ix) = "Greater" -> "Greater"
      [] usize_cmp(self.col_ix, other.col_ix) = "Equal" -> usize_cmp(self.row_ix, other.row_ix)
cmp(self, other) ==
    CASE usize_cmp(self.row_ix, other.row_ix) = "Less" -> "Less"
      [] usize_cmp(self.row_ix, other.row_ix) = "Greater" -> "Greater"
      [] usize_cmp(self.row_ix, other.row_ix) = "Equal" -> usize_cmp(self.col_ix, other.col_ix)

partial_cmp(self, other) == Some(cmp(self, other))

\* the derived PartialEq
eq(self, other) == self.row_ix = other.row_ix /\ self.col_ix = other.col_ix

as_usize_by_rows(self) == self.row_ix * N_ROWS + self.col_ix
as_usize(self) == self.row_ix * N_COLS + self.col_ix

inc_row_unfiltered(self) ==
    IF self.row_ix = USIZE_MAX
    THEN None
    ELSE Some(BoundedIx2(self.row_ix + 1, self.col_ix))
inc_row(self) ==
    IF self.row_ix = USIZE_MAX
    THEN None
    ELSE filter(Some(BoundedIx2(self.row_ix + 1, self.col_ix)), in_bounds)
inc_col(self) ==
    IF self.col_ix = USIZE_MAX
    THEN None
    ELSE filter(Some(BoundedIx2(self.row_ix, self.col_ix + 1)), in_bounds)
dec_row(self) ==
    IF self.row_ix = 0
    THEN None
    ELSE filter(Some(BoundedIx2(self.row_ix - 1, self.col_ix)), in_bounds)
dec_col(self) ==
    IF self.col_ix = 0
    THEN None
    ELSE filter(Some(BoundedIx2(self.row_ix, self.col_ix - 1)), in_bounds)

north(self) == dec_row(self)
south(self) == inc_row(self)
east(self) == inc_col(self)
west(self) == dec_col(self)
northeast(self) == and_then(dec_row(self), inc_col)
northwest_as_north(self) == dec_row(self)
northwest(self) == and_then(dec_row(self), dec_col)
southeast_row_only(self) == inc_row(self)
southeast(self) == and_then(inc_row(self), inc_col)
southwest(self) == and_then(inc_row(self), dec_col)

\* the names of the twelve step methods
StepNames == {"inc_row", "inc_col", "dec_row", "dec_col",
              "north", "south", "east", "west",
              "northeast", "northwest", "southeast", "southwest"}

\* dispatch of a method call `self.m()`
step(m, self) ==
    CASE m = "inc_row" -> inc_row(self)
      [] m = "inc_col" -> inc_col(self)
      [] m = "dec_row" -> dec_row(self)
      [] m = "dec_col" -> dec_col(self)
      [] m = "north" -> north(self)
      [] m = "south" -> south(self)
      [] m = "east" -> east(self)
      [] m = "west" -> west(self)
      [] m = "northeast" -> northeast(self)
      [] m = "northwest" -> northwest(self)
      [] m = "southeast" -> southeast(self)
      [] m = "southwest" -> southwest(self)

(***************************************************************************)
(* iterators over indices (src/ix.rs, mod iterators)                       *)
(* next(self) gives the iterator after the call and the value returned.    *)
(***************************************************************************)
iterators_V2Indices_new ==
    [type |-> "iterators::V2Indices", curr_row |-> 0, curr_col |-> 0]

iterators_V2Indices_next_col_first(self) ==
    IF self.curr_row < N_ROWS
    THEN [self |-> IF self.curr_col = N_COLS - 1
                   THEN [self EXCEPT !.curr_col = 0, !.curr_row = @ + 1]
                   ELSE [self EXCEPT !.curr_col = @ + 1],
          ret |-> Some(BoundedIx2(self.curr_col, self.curr_row))]
    ELSE [self |-> self, ret |-> None]
iterators_V2Indices_next(self) ==
    IF self.curr_row < N_ROWS
    THEN [self |-> IF self.curr_col = N_COLS - 1
                   THEN [self EXCEPT !.curr_col = 0, !.curr_row = @ + 1]
                   ELSE [self EXCEPT !.curr_col = @ + 1],
          ret |-> Some(BoundedIx2(self.curr_row, self.curr_col))]
    ELSE [self |-> self, ret |-> None]

Ix2Neighbors_new_from_one(start) ==
    [type |-> "Ix2Neighbors", start |-> start, curr_ix |-> 1]
Ix2Neighbors_new(start) ==
    [type |-> "Ix2Neighbors", start |-> start, curr_ix |-> 0]

RECURSIVE Ix2Neighbors_next_clockwise(_)
Ix2Neighbors_next_clockwise(self) ==
    IF self.curr_ix < 8
    THEN LET res == CASE self.curr_ix = 0 -> north(self.start)
                      [] self.curr_ix = 1 -> northeast(self.start)
                      [] self.curr_ix = 2 -> east(self.start)
                      [] self.curr_ix = 3 -> southeast(self.start)
                      [] self.curr_ix = 4 -> south(self.start)
                      [] self.curr_ix = 5 -> southwest(self.start)
                      [] self.curr_ix = 6 -> west(self.start)
                      [] self.curr_ix = 7 -> northwest(self.start)
             after == [self EXCEPT !.curr_ix = @ + 1]
         IN  IF is_some(res)
             THEN [self |-> after, ret |-> res]
             ELSE Ix2Neighbors_next_clockwise(after)
    ELSE [self |-> self, ret |-> None]
RECURSIVE Ix2Neighbors_next(_)
Ix2Neighbors_next(self) ==
    IF self.curr_ix < 8
    THEN LET res == CASE self.curr_ix = 0 -> northwest(self.start)
                      [] self.curr_ix = 1 -> north(self.start)
                      [] self.curr_ix = 2 -> northeast(self.start)
                      [] self.curr_ix = 3 -> west(self.start)
                      [] self.curr_ix = 4 -> east(self.start)
                      [] self.curr_ix = 5 -> southwest(self.start)
                      [] self.curr_ix = 6 -> south(self.start)
                      [] self.curr_ix = 7 -> southeast(self.start)
             after == [self EXCEPT !.curr_ix = @ + 1]
         IN  IF is_some(res)
             THEN [self |-> after, ret |-> res]
             ELSE Ix2Neighbors_next(after)
    ELSE [self |-> self, ret |-> None]

Ix2CardinalNeighbors_new(start) ==
    [type |-> "Ix2CardinalNeighbors", start |-> start, curr_ix |-> 0]

RECURSIVE Ix2CardinalNeighbors_next_nsew(_)
Ix2CardinalNeighbors_next_nsew(self) ==
    IF self.curr_ix < 4
    THEN LET res == CASE self.curr_ix = 0 -> north(self.start)
                      [] self.curr_ix = 1 -> south(self.start)
                      [] self.curr_ix = 2 -> east(self.start)
                      [] self.curr_ix = 3 -> west(self.start)
             after == [self EXCEPT !.curr_ix = @ + 1]
         IN  IF is_some(res)
             THEN [self |-> after, ret |-> res]
             ELSE Ix2CardinalNeighbors_next_nsew(after)
    ELSE [self |-> self, ret |-> None]
RECURSIVE Ix2CardinalNeighbors_next(_)
Ix2CardinalNeighbors_next(self) ==
    IF self.curr_ix < 4
    THEN LET res == CASE self.curr_ix = 0 -> north(self.start)
                      [] self.curr_ix = 1 -> east(self.start)
                      [] self.curr_ix = 2 -> south(self.start)
                      [] self.curr_ix = 3 -> west(self.start)
             after == [self EXCEPT !.curr_ix = @ + 1]
         IN  IF is_some(res)
             THEN [self |-> after, ret |-> res]
             ELSE Ix2CardinalNeighbors_next(after)
    ELSE [self |-> self, ret |-> None]

\* std::ops::Range<usize>::next on the range held in field f of self
Range_next(r) ==
    IF r.start < r.end
    THEN [self |-> [r EXCEPT !.start = @ + 1], ret |-> Some(r.start)]
    ELSE [self |-> r, ret |-> None]

BoundedIx2Rows_new ==
    [type |-> "BoundedIx2Rows", row |-> [start |-> 0, end |-> N_ROWS]]

BoundedIx2Rows_next_unfilled(self) ==
    LET r == Range_next(self.row)
    IN  IF is_some(r.ret)
        THEN LET new_row == [c \in 1..N_COLS |-> BoundedIx2(r.ret.val, 0)]
             IN  [self |-> [self EXCEPT !.row = r.self], ret |-> Some(new_row)]
        ELSE [self |-> [self EXCEPT !.row = r.self], ret |-> None]
BoundedIx2Rows_next(self) ==
    LET r == Range_next(self.row)
    IN  IF is_some(r.ret)
        THEN LET new_row == [c \in 1..N_COLS |-> BoundedIx2(r.ret.val, 0)]
             IN  [self |-> [self EXCEPT !.row = r.self],
                  ret |-> Some([c \in 1..N_COLS |->
                                  [new_row[c] EXCEPT !.col_ix = c - 1]])]
        ELSE [self |-> [self EXCEPT !.row = r.self], ret |-> None]

BoundedIx2Cols_new ==
    [type |-> "BoundedIx2Cols", col |-> [start |-> 0, end |-> N_COLS]]

BoundedIx2Cols_next(self) ==
    LET c == Range_next(self.col)
    IN  IF is_some(c.ret)
        THEN LET new_col == [r \in 1..N_ROWS |-> BoundedIx2(0, c.ret.val)]
             IN  [self |-> [self EXCEPT !.col = c.self],
                  ret |-> Some([r \in 1..N_ROWS |->
                                  [new_col[r] EXCEPT !.row_ix = r - 1]])]
        ELSE [self |-> [self EXCEPT !.col = c.self], ret |-> None]

(***************************************************************************)
(* V2<T, N_ROWS, N_COLS> (src/v.rs).  `d` is the field `data`; an element  *)
(* at offset i of the Vec is d[i + 1].  Ix2 is the unchecked index pair    *)
(* the methods of V2 take.                                                 *)
(***************************************************************************)
Ix2(r, c) == [row_ix |-> r, col_ix |-> c]

Ok(v) == [tag |-> "Ok", val |-> v]
SizingError(expected, actual) ==
    [tag |-> "Err", expected |-> expected, actual |-> actual]

V2_new_accepts_short(d) ==
    IF N_ROWS * N_COLS < Len(d)
    THEN SizingError(Len(d), N_ROWS * N_COLS)
    ELSE Ok(d)
V2_new(d) ==
    IF N_ROWS * N_COLS # Len(d)
    THEN SizingError(Len(d), N_ROWS * N_COLS)
    ELSE Ok(d)

\* T::default() of the element type u8
T_default == 0

V2_default_square == [k \in 1..(N_ROWS * N_ROWS) |-> T_default]
V2_default == [k \in 1..(N_ROWS * N_COLS) |-> T_default]

\* the indexing expression &d[i]: panics when i is not below the length
index(d, i) == IF i < Len(d) THEN Some(d[i + 1]) ELSE Panic

convert_ix_swapped(col_ix, row_ix) == col_ix * N_COLS + row_ix
convert_ix(col_ix, row_ix) == row_ix * N_COLS + col_ix

get_ix(i) ==
    IF i.row_ix >= N_ROWS \/ i.col_ix >= N_COLS
    THEN None
    ELSE Some(convert_ix(i.col_ix, i.row_ix))

V2_get(d, i) ==
    LET o == get_ix(i) IN IF is_some(o) THEN index(d, o.val) ELSE None

V2_get_mut(d, i) ==
    LET o == get_ix(i) IN IF is_some(o) THEN index(d, o.val) ELSE None

(***************************************************************************)
(* V2Indices (src/v.rs)                                                    *)
(***************************************************************************)
V2Indices_new == [type |-> "V2Indices", curr_row |-> 0, curr_col |-> 0]

V2Indices_next(self) ==
    IF self.curr_row < N_ROWS
    THEN [self |-> IF self.curr_col = N_COLS - 1
                   THEN [self EXCEPT !.curr_col = 0, !.curr_row = @ + 1]
                   ELSE [self EXCEPT !.curr_col = @ + 1],
          ret |-> Some(Ix2(self.curr_row, self.curr_col))]
    ELSE [self |-> self, ret |-> None]

(***************************************************************************)
(* V2Neighbors (src/v.rs)                                                  *)
(***************************************************************************)
V2Neighbors_new(i) ==
    [type |-> "V2Neighbors",
     center_col_ix |-> i.col_ix, center_row_ix |-> i.row_ix,
     curr_col_ix |-> 0, curr_row_ix |-> 0]

V2Neighbors_dec_col(self) ==
    IF self.center_col_ix = 0 THEN None ELSE Some(self.center_col_ix - 1)
V2Neighbors_inc_col(self) ==
    IF self.center_col_ix = N_COLS - 1 THEN None ELSE Some(self.center_col_ix + 1)
V2Neighbors_dec_row(self) ==
    IF self.center_row_ix = 0 THEN None ELSE Some(self.center_row_ix - 1)
V2Neighbors_inc_row(self) ==
    IF self.center_row_ix = N_ROWS - 1 THEN None ELSE Some(self.center_row_ix + 1)

\* The cursor (curr_col_ix, curr_row_ix) of the loop of next() ranges over
\* 0..2 x 0..3 and the loop body is a function of it (the centre is fixed), so
\* a call that has gone round the loop more often than there are cursor values
\* has repeated one without returning and never returns.
V2Neighbors_cursors == 3 * 4

\* the loop of V2Neighbors::next, `fuel` iterations of it at most
RECURSIVE V2Neighbors_loop(_, _, _)
V2Neighbors_loop(d, self, fuel) ==
    IF fuel = 0
    THEN [self |-> self, ret |-> Diverge]
    ELSE IF ~(self.curr_row_ix < 3)
    THEN [self |-> self, ret |-> None]
    ELSE IF self.curr_col_ix = 1 /\ self.curr_row_ix = 1
    THEN V2Neighbors_loop(d, [self EXCEPT !.curr_col_ix = 2], fuel - 1)
    ELSE
      LET col_ix == CASE self.curr_col_ix = 0 -> V2Neighbors_dec_col(self)
                      [] self.curr_col_ix = 1 -> Some(self.center_col_ix)
                      [] self.curr_col_ix = 2 -> V2Neighbors_inc_col(self)
                      [] OTHER -> Panic
          row_ix == CASE self.curr_row_ix = 0 -> V2Neighbors_dec_row(self)
                      [] self.curr_row_ix = 1 -> Some(self.center_row_ix)
                      [] self.curr_row_ix = 2 -> V2Neighbors_inc_row(self)
                      [] OTHER -> Panic
      IN  IF col_ix = Panic \/ row_ix = Panic
          THEN [self |-> self, ret |-> Panic]
          ELSE IF is_none(col_ix)
          THEN V2Neighbors_loop(d,
                   [self EXCEPT !.curr_col_ix = IF @ = 2 THEN 0 ELSE @ + 1],
                   fuel - 1)
          ELSE IF is_none(row_ix)
          THEN V2Neighbors_loop(d, [self EXCEPT !.curr_row_ix = @ + 1], fuel - 1)
          ELSE [self |-> IF self.curr_col_ix = 2
                         THEN [self EXCEPT !.curr_row_ix = @ + 1, !.curr_col_ix = 0]
                         ELSE [self EXCEPT !.curr_col_ix = @ + 1],
                ret |-> index(d, row_ix.val * N_COLS + col_ix.val)]

V2Neighbors_next(d, self) == V2Neighbors_loop(d, self, V2Neighbors_cursors + 1)

(***************************************************************************)
(* V2CardinalNeighbors (src/v.rs)                                          *)
(***************************************************************************)
NeighborDirection_new == Some("N")

NeighborDirection_next(self) ==
    CASE self = "N" -> Some("E")
      [] self = "E" -> Some("S")
      [] self = "S" -> Some("W")
      [] self = "W" -> None

V2CardinalNeighbors_new(i) ==
    [type |-> "V2CardinalNeighbors",
     center_col_ix |-> i.col_ix, center_row_ix |-> i.row_ix,
     direction |-> NeighborDirection_new]

V2CardinalNeighbors_dec_col(self) ==
    IF self.center_col_ix = 0 THEN None ELSE Some(self.center_col_ix - 1)
V2CardinalNeighbors_inc_col(self) ==
    IF self.center_col_ix = N_COLS - 1 THEN None ELSE Some(self.center_col_ix + 1)
V2CardinalNeighbors_dec_row(self) ==
    IF self.center_row_ix = 0 THEN None ELSE Some(self.center_row_ix - 1)
V2CardinalNeighbors_inc_row(self) ==
    IF self.center_row_ix = N_ROWS - 1 THEN None ELSE Some(self.center_row_ix + 1)

\* Option::map with the closure of each getter
get_north(self) ==
    LET o == V2CardinalNeighbors_dec_row(self)
    IN  IF is_some(o) THEN Some(o.val * N_COLS + self.center_col_ix) ELSE None
get_south(self) ==
    LET o == V2CardinalNeighbors_inc_row(self)
    IN  IF is_some(o) THEN Some(o.val * N_COLS * self.center_col_ix) ELSE None
get_east(self) ==
    LET o == V2CardinalNeighbors_inc_col(self)
    IN  IF is_some(o) THEN Some(self.center_row_ix * N_COLS + o.val) ELSE None
get_west(self) ==
    LET o == V2CardinalNeighbors_dec_col(self)
    IN  IF is_some(o) THEN Some(self.center_row_ix * N_COLS + o.val) ELSE None

get_dir(self, direction) ==
    CASE direction = "N" -> get_north(self)
      [] direction = "S" -> get_south(self)
      [] direction = "E" -> get_east(self)
      [] direction = "W" -> get_west(self)

next_direction(self) ==
    [self EXCEPT !.direction = and_then(self.direction, NeighborDirection_next)]

RECURSIVE V2CardinalNeighbors_next(_, _)
V2CardinalNeighbors_next(d, self) ==
    IF is_some(self.direction)
    THEN LET dir == self.direction.val
             after == next_direction(self)
             o == get_dir(after, dir)
         IN  IF is_some(o)
             THEN [self |-> after, ret |-> index(d, o.val)]
             ELSE V2CardinalNeighbors_next(d, after)
    ELSE [self |-> self, ret |-> None]

(***************************************************************************)
(* V2Rows, V2Cols, V2Indexed (src/v.rs)                                    *)
(***************************************************************************)
\* the slicing expression &d[start..end]: panics unless start <= end <= len
slice(d, start, end) ==
    IF start <= end /\ end <= Len(d)
    THEN Some(SubSeq(d, start + 1, end))
    ELSE Panic

V2Rows_new == [type |-> "V2Rows", curr_row |-> 0]

V2Rows_next(d, self) ==
    IF self.curr_row = N_ROWS
    THEN [self |-> self, ret |-> None]
    ELSE LET start == N_COLS * self.curr_row
             after == [self EXCEPT !.curr_row = @ + 1]
             end == N_COLS * after.curr_row
         IN  [self |-> after, ret |-> slice(d, start, end)]

V2Cols_new == [type |-> "V2Cols", curr_col |-> 0]

V2Cols_next_stride_rows(d, self) ==
    IF self.curr_col = N_COLS
    THEN [self |-> self, ret |-> None]
    ELSE LET v == [r \in 1..N_ROWS |-> index(d, (r - 1) * N_ROWS + self.curr_col)]
         IN  IF \E r \in 1..N_ROWS : v[r] = Panic
             THEN [self |-> self, ret |-> Panic]
             ELSE [self |-> [self EXCEPT !.curr_col = @ + 1],
                   ret |-> Some([r \in 1..N_ROWS |-> v[r].val])]
V2Cols_next(d, self) ==
    IF self.curr_col = N_COLS
    THEN [self |-> self, ret |-> None]
    ELSE LET v == [r \in 1..N_ROWS |-> index(d, (r - 1) * N_COLS + self.curr_col)]
         IN  IF \E r \in 1..N_ROWS : v[r] = Panic
             THEN [self |-> self, ret |-> Panic]
             ELSE [self |-> [self EXCEPT !.curr_col = @ + 1],
                   ret |-> Some([r \in 1..N_ROWS |-> v[r].val])]

V2Indexed_new == [type |-> "V2Indexed", indices |-> V2Indices_new, i |-> 0]

V2Indexed_next_by_cols(d, self) ==
    LET n == V2Indices_next(self.indices)
    IN  IF is_some(n.ret)
        THEN LET old_ix == n.ret.val.col_ix * N_ROWS + n.ret.val.row_ix
                 v == index(d, old_ix)
             IN  [self |-> [self EXCEPT !.indices = n.self, !.i = @ + 1],
                  ret |-> IF is_some(v) THEN Some(<<n.ret.val, v.val>>) ELSE Panic]
        ELSE [self |-> [self EXCEPT !.indices = n.self], ret |-> None]
V2Indexed_next(d, self) ==
    LET n == V2Indices_next(self.indices)
    IN  IF is_some(n.ret)
        THEN LET old_ix == self.i
                 v == index(d, old_ix)
             IN  [self |-> [self EXCEPT !.indices = n.self, !.i = @ + 1],
                  ret |-> IF is_some(v) THEN Some(<<n.ret.val, v.val>>) ELSE Panic]
        ELSE [self |-> [self EXCEPT !.indices = n.self], ret |-> None]

(***************************************************************************)
(* Ix2 and the directional methods of V2 (src/v.rs).  The definition of    *)
(* Ix2 is not part of the sources at hand: it has no dimensions, so its    *)
(* steps can refuse only a step below 0, which is what tests::test_north   *)
(* .. test_southeast of src/v.rs expect of them.                           *)
(***************************************************************************)
Ix2_inc_row(self) ==
    IF self.row_ix = USIZE_MAX THEN None ELSE Some(Ix2(self.row_ix + 1, self.col_ix))
Ix2_inc_col(self) ==
    IF self.col_ix = USIZE_MAX THEN None ELSE Some(Ix2(self.row_ix, self.col_ix + 1))
Ix2_dec_row(self) ==
    IF self.row_ix = 0 THEN None ELSE Some(Ix2(self.row_ix - 1, self.col_ix))
Ix2_dec_col(self) ==
    IF self.col_ix = 0 THEN None ELSE Some(Ix2(self.row_ix, self.col_ix - 1))

north_ix(i) == Ix2_dec_row(i)
south_ix(i) == Ix2_inc_row(i)
east_ix(i) == Ix2_inc_col(i)
west_ix(i) == Ix2_dec_col(i)
northeast_ix_bounded(i) == northeast(i)
northeast_ix(i) == and_then(Ix2_dec_row(i), Ix2_inc_col)
northwest_ix(i) == and_then(Ix2_dec_row(i), Ix2_dec_col)
southeast_ix(i) == and_then(Ix2_inc_row(i), Ix2_inc_col)
southwest_ix(i) == and_then(Ix2_inc_row(i), Ix2_dec_col)

\* o.and_then(|i| self.get(i)) and o.and_then(|i| self.get_mut(i))
and_then_get(d, o) == IF is_some(o) THEN V2_get(d, o.val) ELSE None
and_then_get_mut(d, o) == IF is_some(o) THEN V2_get_mut(d, o.val) ELSE None

north_of(d, i) == and_then_get(d, north_ix(i))
south_of(d, i) == and_then_get(d, south_ix(i))
east_of_unchecked(d, i) ==
    LET o == east_ix(i)
    IN  IF is_some(o) THEN index(d, convert_ix(o.val.col_ix, o.val.row_ix)) ELSE None
east_of(d, i) == and_then_get(d, east_ix(i))
west_of(d, i) == and_then_get(d, west_ix(i))
northeast_of(d, i) == and_then_get(d, northeast_ix(i))
northwest_of(d, i) == and_then_get(d, northwest_ix(i))
southeast_of(d, i) == and_then_get(d, southeast_ix(i))
southwest_of(d, i) == and_then_get(d, southwest_ix(i))
north_of_mut(d, i) == and_then_get_mut(d, north_ix(i))
south_of_mut(d, i) == and_then_get_mut(d, south_ix(i))
east_of_mut(d, i) == and_then_get_mut(d, east_ix(i))
west_of_mut(d, i) == and_then_get_mut(d, west_ix(i))
northeast_of_mut(d, i) == and_then_get_mut(d, northeast_ix(i))
northwest_of_mut(d, i) == and_then_get_mut(d, northwest_ix(i))
southeast_of_mut(d, i) == and_then_get_mut(d, southeast_ix(i))
southwest_of_mut(d, i) == and_then_get_mut(d, southwest_ix(i))

\* the names of the eight directions
Directions == {"north", "south", "east", "west",
               "northeast", "northwest", "southeast", "southwest"}

\* dispatch of `self.<m>_of(i)` and `self.<m>_of_mut(i)`
dir_of(m, d, i) ==
    CASE m = "north" -> north_of(d, i)
      [] m = "south" -> south_of(d, i)
      [] m = "east" -> east_of(d, i)
      [] m = "west" -> west_of(d, i)
      [] m = "northeast" -> northeast_of(d, i)
      [] m = "northwest" -> northwest_of(d, i)
      [] m = "southeast" -> southeast_of(d, i)
      [] m = "southwest" -> southwest_of(d, i)
dir_ix(m, i) ==
    CASE m = "north" -> north_ix(i)
      [] m = "south" -> south_ix(i)
      [] m = "east" -> east_ix(i)
      [] m = "west" -> west_ix(i)
      [] m = "northeast" -> northeast_ix(i)
      [] m = "northwest" -> northwest_ix(i)
      [] m = "southeast" -> southeast_ix(i)
      [] m = "southwest" -> southwest_ix(i)
dir_of_mut(m, d, i) ==
    CASE m = "north" -> north_of_mut(d, i)
      [] m = "south" -> south_of_mut(d, i)
      [] m = "east" -> east_of_mut(d, i)
      [] m = "west" -> west_of_mut(d, i)
      [] m = "northeast" -> northeast_of_mut(d, i)
      [] m = "northwest" -> northwest_of_mut(d, i)
      [] m = "southeast" -> southeast_of_mut(d, i)
      [] m = "southwest" -> southwest_of_mut(d, i)

(***************************************************************************)
(* writes and growth of V2 (src/v.rs)                                      *)
(***************************************************************************)
\* the closures passed as updater: |v| *v = 9 (tests::test_mutate_at) and
\* |v| *v += 10 (tests/integration_tests.rs); with at most MaxWrites writes
\* no element comes near the width of u8
Updaters == {"set9", "add10"}

update(f, v) ==
    CASE f = "set9" -> 9
      [] f = "add10" -> v + 10

mutate_at_args_swapped(d, i, f) ==
    LET k == convert_ix(i.row_ix, i.col_ix)
    IN  IF k < Len(d) THEN [d EXCEPT ![k + 1] = update(f, @)] ELSE d
mutate_at(d, i, f) ==
    LET k == convert_ix(i.col_ix, i.row_ix)
    IN  IF k < Len(d) THEN [d EXCEPT ![k + 1] = update(f, @)] ELSE d

\* a write through the reference get_mut returns, when it returns one
get_mut_write(d, i, f) ==
    LET o == get_ix(i)
    IN  IF is_some(o) /\ o.val < Len(d)
        THEN [d EXCEPT ![o.val + 1] = update(f, @)]
        ELSE d

\* v2[i] and v2[i] += 10 with a BoundedIx2, as tests/integration_tests.rs
\* uses them: the element at the offset of the coordinate
V2_index(d, i) == index(d, as_usize(i))
V2_index_add_assign(d, i) == [d EXCEPT ![as_usize(i) + 1] = @ + 10]

\* the body of the loop of test_owned for the index i
test_owned_body(d, i) ==
    LET wix == west(i)
        nix == north(i)
    IN  IF is_some(wix) /\ is_some(nix)
        THEN LET s == V2_index(d, wix.val).val + V2_index(d, nix.val).val
             IN  IF s % 3 = 0 THEN V2_index_add_assign(d, i) ELSE d
        ELSE d

\* Vec::insert(at, x), for at within the length
insert(v, at, x) == SubSeq(v, 1, at) \o <<x>> \o SubSeq(v, at + 1, Len(v))

\* the loop of add_col from element row_ix of col on; Vec::insert panics when
\* the place is beyond the length
RECURSIVE add_col_loop(_, _, _)
add_col_loop(new_data, col, row_ix) ==
    LET at == row_ix * N_COLS + (N_COLS + row_ix)
    IN  IF row_ix = Len(col)
        THEN Ok(new_data)
        ELSE IF at > Len(new_data)
             THEN Panic
             ELSE add_col_loop(insert(new_data, at, col[row_ix + 1]), col, row_ix + 1)

add_col_appended(d, col) ==
    IF Len(col) # N_ROWS
    THEN SizingError(N_ROWS, Len(col))
    ELSE Ok(d \o col)
add_col(d, col) ==
    IF Len(col) # N_ROWS
    THEN SizingError(N_ROWS, Len(col))
    ELSE add_col_loop(d, col, 0)

add_row_on_top(d, row) ==
    IF Len(row) # N_COLS
    THEN SizingError(N_COLS, Len(row))
    ELSE Ok(row \o d)
add_row(d, row) ==
    IF Len(row) # N_COLS
    THEN SizingError(N_COLS, Len(row))
    ELSE Ok(d \o row)

(***************************************************************************)
(* The caller                                                              *)
(***************************************************************************)
\* the vector of the tests: 0, 1, 2, ... in row-major order
Iota(n) == [k \in 1..n |-> k - 1]

\* the arguments tried for a `usize` row or column: all in-range ones and two
\* that are out of range for every instantiation
Usizes == 0..(MaxDim + 1)

\* the Ix2 values that lie inside the vector
Centres == {Ix2(r, c) : r \in 0..(N_ROWS - 1), c \in 0..(N_COLS - 1)}

NoIter == [type |-> "none"]

Running == status = "running"

Init ==
    /\ N_ROWS \in 1..MaxDim
    /\ N_COLS \in 1..MaxDim
    /\ data \in {V2_new(Iota(N_ROWS * N_COLS)).val, V2_default}
    /\ ix \in {BoundedIx2_min, BoundedIx2_max, BoundedIx2_default}
    /\ call = [op |-> "init"]
    /\ iter = NoIter
    /\ out = <<>>
    /\ ended = FALSE
    /\ status = "running"
    /\ writes = 0

\* a call on the coordinate that returns Option<Self>: the caller keeps the
\* new coordinate when there is one
IxCall(op, args, ret) ==
    /\ Running
    /\ iter = NoIter
    /\ call' = [op |-> op, args |-> args, ret |-> ret]
    /\ ix' = IF is_some(ret) THEN ret.val ELSE ix
    /\ UNCHANGED <<N_ROWS, N_COLS, data, iter, out, ended, status, writes>>

CallNew ==
    \E row_ix \in Usizes, col_ix \in Usizes :
        IxCall("new", <<row_ix, col_ix>>, BoundedIx2_new(row_ix, col_ix))

CallMin == IxCall("min", <<>>, Some(BoundedIx2_min))

CallMax == IxCall("max", <<>>, Some(BoundedIx2_max))

CallDefault == IxCall("default", <<>>, Some(BoundedIx2_default))

CallStep == \E m \in StepNames : IxCall(m, <<ix>>, step(m, ix))

CallAsUsize ==
    /\ Running
    /\ iter = NoIter
    /\ call' = [op |-> "as_usize", args |-> <<ix>>, ret |-> as_usize(ix)]
    /\ UNCHANGED <<N_ROWS, N_COLS, data, ix, iter, out, ended, status, writes>>

\* the coordinates of the type
Coordinates == {BoundedIx2(r, c) : r \in 0..(N_ROWS - 1), c \in 0..(N_COLS - 1)}

\* a comparison of the caller's coordinate with another one
Compare(op, other, ret) ==
    /\ Running
    /\ iter = NoIter
    /\ call' = [op |-> op, args |-> <<ix, other>>, ret |-> ret]
    /\ UNCHANGED <<N_ROWS, N_COLS, data, ix, iter, out, ended, status, writes>>

CallCmp == \E other \in Coordinates : Compare("cmp", other, cmp(ix, other))

CallPartialCmp == \E other \in Coordinates : Compare("partial_cmp", other, partial_cmp(ix, other))

CallEq == \E other \in Coordinates : Compare("eq", other, eq(ix, other))

\* a call on the vector that reads it
V2Call(op, args, ret) ==
    /\ Running
    /\ iter = NoIter
    /\ call' = [op |-> op, args |-> args, ret |-> ret]
    /\ status' = IF ret = Panic THEN "panicked" ELSE status
    /\ UNCHANGED <<N_ROWS, N_COLS, data, ix, iter, out, ended, writes>>

CallGet ==
    \E r \in Usizes, c \in Usizes :
        V2Call("get", <<Ix2(r, c)>>, V2_get(data, Ix2(r, c)))

CallGetMut ==
    \E r \in Usizes, c \in Usizes :
        V2Call("get_mut", <<Ix2(r, c)>>, V2_get_mut(data, Ix2(r, c)))

\* the caller creates an iterator
IterNew(it) ==
    /\ Running
    /\ iter = NoIter
    /\ iter' = it
    /\ call' = [op |-> "iter", args |-> <<it.type>>, ret |-> it]
    /\ out' = <<>>
    /\ ended' = FALSE
    /\ UNCHANGED <<N_ROWS, N_COLS, data, ix, status, writes>>

\* the caller calls next() on its iterator; r is what next() gives
IterNext(r) ==
    /\ Running
    /\ iter' = r.self
    /\ call' = [op |-> "next", args |-> <<iter>>, ret |-> r.ret]
    /\ out' = IF is_some(r.ret) THEN Append(out, r.ret.val) ELSE out
    /\ ended' = (ended \/ is_none(r.ret))
    /\ status' = CASE r.ret = Panic -> "panicked"
                   [] r.ret = Diverge -> "hung"
                   [] OTHER -> status
    /\ UNCHANGED <<N_ROWS, N_COLS, data, ix, writes>>

IndicesNew == IterNew(iterators_V2Indices_new)
IndicesNext ==
    /\ iter.type = "iterators::V2Indices"
    /\ IterNext(iterators_V2Indices_next(iter))

Ix2NeighborsNew == IterNew(Ix2Neighbors_new(ix))
Ix2NeighborsNext ==
    /\ iter.type = "Ix2Neighbors"
    /\ IterNext(Ix2Neighbors_next(iter))

Ix2CardinalNeighborsNew == IterNew(Ix2CardinalNeighbors_new(ix))
Ix2CardinalNeighborsNext ==
    /\ iter.type = "Ix2CardinalNeighbors"
    /\ IterNext(Ix2CardinalNeighbors_next(iter))

BoundedIx2RowsNew == IterNew(BoundedIx2Rows_new)
BoundedIx2RowsNext ==
    /\ iter.type = "BoundedIx2Rows"
    /\ IterNext(BoundedIx2Rows_next(iter))

BoundedIx2ColsNew == IterNew(BoundedIx2Cols_new)
BoundedIx2ColsNext ==
    /\ iter.type = "BoundedIx2Cols"
    /\ IterNext(BoundedIx2Cols_next(iter))

\* V2::indices()
CallIndices == IterNew(V2Indices_new)
V2IndicesNext ==
    /\ iter.type = "V2Indices"
    /\ IterNext(V2Indices_next(iter))

\* V2::neighbors_of(ix)
CallNeighborsOf == \E i \in Centres : IterNew(V2Neighbors_new(i))
V2NeighborsNext ==
    /\ iter.type = "V2Neighbors"
    /\ Len(out) < MaxDrain
    /\ IterNext(V2Neighbors_next(data, iter))

\* V2::cardinal_neighbors_of(ix)
CallCardinalNeighborsOf == \E i \in Centres : IterNew(V2CardinalNeighbors_new(i))
V2CardinalNeighborsNext ==
    /\ iter.type = "V2CardinalNeighbors"
    /\ IterNext(V2CardinalNeighbors_next(data, iter))

\* V2::rows()
CallRows == IterNew(V2Rows_new)
V2RowsNext ==
    /\ iter.type = "V2Rows"
    /\ IterNext(V2Rows_next(data, iter))

\* V2::cols()
CallCols == IterNew(V2Cols_new)
V2ColsNext ==
    /\ iter.type = "V2Cols"
    /\ IterNext(V2Cols_next(data, iter))

\* V2::indexed()
CallIndexed == IterNew(V2Indexed_new)
V2IndexedNext ==
    /\ iter.type = "V2Indexed"
    /\ IterNext(V2Indexed_next(data, iter))

\* V2::north_ix .. southwest_ix
CallDirIx ==
    \E m \in Directions, i \in Centres :
        V2Call("ix", <<m, i>>, dir_ix(m, i))

\* V2::north_of .. southwest_of
CallDirOf ==
    \E m \in Directions, i \in Centres :
        V2Call("of", <<m, i>>, dir_of(m, data, i))

\* V2::north_of_mut .. southwest_of_mut
CallDirOfMut ==
    \E m \in Directions, i \in Centres :
        V2Call("of_mut", <<m, i>>, dir_of_mut(m, data, i))

\* the caller drops its iterator, exhausted or not
Drop ==
    /\ Running
    /\ iter # NoIter
    /\ iter' = NoIter
    /\ call' = [op |-> "drop", args |-> <<iter.type>>, ret |-> None]
    /\ out' = <<>>
    /\ ended' = FALSE
    /\ UNCHANGED <<N_ROWS, N_COLS, data, ix, status, writes>>

Next ==
    \/ CallNew
    \/ CallCmp
    \/ CallPartialCmp
    \/ CallEq
    \/ CallMin
    \/ CallMax
    \/ CallDefault
    \/ CallStep
    \/ CallAsUsize
    \/ CallGet
    \/ CallGetMut
    \/ IndicesNew
    \/ IndicesNext
    \/ Ix2NeighborsNew
    \/ Ix2NeighborsNext
    \/ Ix2CardinalNeighborsNew
    \/ Ix2CardinalNeighborsNext
    \/ BoundedIx2RowsNew
    \/ BoundedIx2RowsNext
    \/ BoundedIx2ColsNew
    \/ BoundedIx2ColsNext
    \/ CallIndices
    \/ V2IndicesNext
    \/ CallNeighborsOf
    \/ V2NeighborsNext
    \/ CallCardinalNeighborsOf
    \/ V2CardinalNeighborsNext
    \/ CallRows
    \/ V2RowsNext
    \/ CallCols
    \/ V2ColsNext
    \/ CallIndexed
    \/ V2IndexedNext
    \/ CallDirIx
    \/ CallDirOf
    \/ CallDirOfMut
    \/ Drop

Spec == Init /\ [][Next]_vars

(***************************************************************************)
(* The caller that builds, writes and grows the vector                     *)
(***************************************************************************)
\* the elements offered to new, add_row and add_col: n values that continue
\* the count from `from` (the tests add 9, 10, 11 to 0..=8)
Values(from, n) == [k \in 1..n |-> from + k - 1]

\* the caller grows vectors up to MaxDim rows and columns, and one step beyond
\* that the vector of 0, 1, 2, .. (the 3 x 3 one in tests::test_add_col and
\* tests::test_add_row)
Within(rows, cols) == rows <= MaxDim /\ cols <= MaxDim

\* the caller writes to a vector at most MaxWrites times, and no more once it
\* has rebuilt or grown a vector it wrote to
Settled == IF writes = 0 THEN 0 ELSE MaxWrites

\* the lengths offered where n elements are expected: one short, right, one long
Lengths(n) == (n - 1)..(n + 1)

\* V2::new(d): on Ok the caller holds the new vector
CallV2New ==
    \E n \in Lengths(N_ROWS * N_COLS) :
        LET d == Values(0, n)
            r == V2_new(d)
        IN  /\ Running
            /\ iter = NoIter
            /\ call' = [op |-> "V2::new", args |-> <<d>>, ret |-> r]
            /\ data' = IF r.tag = "Ok" THEN r.val ELSE data
            /\ writes' = IF r.tag = "Ok" THEN Settled ELSE writes
            /\ UNCHANGED <<N_ROWS, N_COLS, ix, iter, out, ended, status>>

\* V2::default()
CallV2Default ==
    /\ Running
    /\ iter = NoIter
    /\ call' = [op |-> "V2::default", args |-> <<>>, ret |-> V2_default]
    /\ data' = V2_default
    /\ writes' = Settled
    /\ UNCHANGED <<N_ROWS, N_COLS, ix, iter, out, ended, status>>

\* the caller writes to vectors of fewer than MaxDim rows and columns (and
\* grows them after that)
Writable == N_ROWS < MaxDim /\ N_COLS < MaxDim

\* a write to the vector: d is the vector after it
Write(op, i, f, d) ==
    /\ Running
    /\ iter = NoIter
    /\ writes < MaxWrites
    /\ Writable
    /\ call' = [op |-> op, args |-> <<i, f>>, ret |-> None]
    /\ data' = d
    /\ writes' = writes + 1
    /\ UNCHANGED <<N_ROWS, N_COLS, ix, iter, out, ended, status>>

\* V2::mutate_at(i, f)
CallMutateAt ==
    \E r \in 0..N_ROWS, c \in 0..N_COLS, f \in Updaters :
        Write("mutate_at", Ix2(r, c), f, mutate_at(data, Ix2(r, c), f))

\* if let Some(v) = self.get_mut(i) { f(v) }
CallGetMutWrite ==
    \E r \in 0..N_ROWS, c \in 0..N_COLS, f \in Updaters :
        Write("get_mut_write", Ix2(r, c), f, get_mut_write(data, Ix2(r, c), f))

\* a call that grows the vector: on Ok the caller holds the grown vector, of
\* the type with one more row or column; on Err it keeps a clone of the old one
Grow(op, arg, r, rows, cols) ==
    /\ Running
    /\ iter = NoIter
    /\ r.tag = "Ok" => (Within(rows, cols) \/ (Within(N_ROWS, N_COLS) /\ data = Iota(Len(data))))
    /\ call' = [op |-> op, args |-> <<arg, data>>, ret |-> r]
    /\ data' = IF r.tag = "Ok" THEN r.val ELSE data
    /\ N_ROWS' = IF r.tag = "Ok" THEN rows ELSE N_ROWS
    /\ N_COLS' = IF r.tag = "Ok" THEN cols ELSE N_COLS
    /\ status' = IF r = Panic THEN "panicked" ELSE status
    /\ writes' = IF r.tag = "Ok" THEN Settled ELSE writes
    /\ UNCHANGED <<ix, iter, out, ended>>

\* V2::add_row(row)
CallAddRow ==
    \E n \in Lengths(N_COLS) :
        LET row == Values(Len(data), n)
        IN  Grow("add_row", row, add_row(data, row), N_ROWS + 1, N_COLS)

\* V2::add_col(col)
CallAddCol ==
    \E n \in Lengths(N_ROWS) :
        LET col == Values(Len(data), n)
        IN  Grow("add_col", col, add_col(data, col), N_ROWS, N_COLS + 1)

\* for ix in V2Indices::new() { .. } of test_owned, on a vector not written to
ScanNew ==
    /\ writes = 0
    /\ IndicesNew

\* one turn of that loop: next() and, for an index, the body
ScanNext ==
    LET r == iterators_V2Indices_next(iter)
        d == IF is_some(r.ret) THEN test_owned_body(data, r.ret.val) ELSE data
    IN  /\ Running
        /\ iter.type = "iterators::V2Indices"
        /\ ~ended
        /\ iter' = r.self
        /\ call' = [op |-> "scan", args |-> <<iter>>, ret |-> r.ret]
        /\ out' = IF is_some(r.ret) THEN Append(out, r.ret.val) ELSE out
        /\ ended' = is_none(r.ret)
        /\ data' = d
        /\ writes' = IF d = data THEN writes ELSE writes + 1
        /\ UNCHANGED <<N_ROWS, N_COLS, ix, status>>

GridNext ==
    \/ CallV2New
    \/ CallV2Default
    \/ CallMutateAt
    \/ CallGetMutWrite
    \/ CallAddRow
    \/ CallAddCol
    \/ ScanNew
    \/ ScanNext
    \/ Drop

GridInit == Init /\ ix = BoundedIx2_min

GridSpec == GridInit /\ [][GridNext]_vars

(***************************************************************************)
(* Properties                                                              *)
(***************************************************************************)
InRange(i) == i.row_ix < N_ROWS /\ i.col_ix < N_COLS

\* s is an initial segment of t
IsPrefix(s, t) ==
    /\ Len(s) <= Len(t)
    /\ \A k \in 1..Len(s) : s[k] = t[k]

\* the values of the Some entries of a sequence of Options, in order
Somes(s) ==
    LET f == SelectSeq(s, is_some) IN [k \in 1..Len(f) |-> f[k].val]

\* C1: every BoundedIx2 obtained through the public interface (new, min, max,
\* default, any chain of step methods, and every item the index iterators
\* yield) has row < N_ROWS and col < N_COLS.
C1_InBounds ==
    /\ InRange(ix)
    /\ (call.op \in StepNames \cup {"new", "min", "max", "default"}
          /\ is_some(call.ret)) => InRange(call.ret.val)
    /\ iter.type \in {"iterators::V2Indices", "Ix2Neighbors", "Ix2CardinalNeighbors"}
          => \A k \in 1..Len(out) : InRange(out[k])
    /\ iter.type \in {"BoundedIx2Rows", "BoundedIx2Cols"}
          => \A k \in 1..Len(out) : \A j \in 1..Len(out[k]) : InRange(out[k][j])

\* a chain of steps has arrived at the far corner of a grid with several rows
C1_Witness ==
    /\ call.op = "southeast"
    /\ is_some(call.ret)
    /\ ix = BoundedIx2(N_ROWS - 1, N_COLS - 1)
    /\ N_ROWS > 1

\* C2: new(row, col) is Some of exactly (row, col) iff row < N_ROWS and
\* col < N_COLS, and None for every other argument.
C2_NewChecksBounds ==
    call.op = "new" =>
        LET row == call.args[1]
            col == call.args[2]
        IN  IF row < N_ROWS /\ col < N_COLS
            THEN call.ret = Some([row_ix |-> row, col_ix |-> col])
            ELSE call.ret = None

\* new was refused for the first row that is out of range
C2_Witness ==
    /\ call.op = "new"
    /\ call.args[1] = N_ROWS
    /\ call.args[2] < N_COLS
    /\ call.ret = None

\* C3: as_usize is row * N_COLS + col, below N_ROWS * N_COLS, and a bijection
\* between the in-range coordinates and 0 .. N_ROWS * N_COLS - 1.
C3_AsUsizeBijective ==
    LET Coords == {BoundedIx2(r, c) : r \in 0..(N_ROWS - 1), c \in 0..(N_COLS - 1)}
    IN  /\ call.op = "as_usize" =>
              /\ call.ret = call.args[1].row_ix * N_COLS + call.args[1].col_ix
              /\ call.ret < N_ROWS * N_COLS
        /\ \A a \in Coords : \A b \in Coords : as_usize(a) = as_usize(b) => a = b
        /\ \A k \in 0..(N_ROWS * N_COLS - 1) : \E a \in Coords : as_usize(a) = k

\* as_usize was called off the first row and column of a grid that is not square
C3_Witness ==
    /\ call.op = "as_usize"
    /\ call.args[1].row_ix > 0
    /\ call.args[1].col_ix > 0
    /\ N_ROWS # N_COLS

\* the offset (dr, dc) of each of the eight directions
Offset(m) ==
    CASE m = "north" -> <<-1, 0>>
      [] m = "south" -> <<1, 0>>
      [] m = "east" -> <<0, 1>>
      [] m = "west" -> <<0, -1>>
      [] m = "northeast" -> <<-1, 1>>
      [] m = "northwest" -> <<-1, -1>>
      [] m = "southeast" -> <<1, 1>>
      [] m = "southwest" -> <<1, -1>>

\* C4: each of the eight directional steps from (r, c) returns
\* Some((r + dr, c + dc)) iff that lies inside the grid, and None otherwise.
C4_StepsChecked ==
    call.op \in {"north", "south", "east", "west",
                 "northeast", "northwest", "southeast", "southwest"} =>
        LET r == call.args[1].row_ix + Offset(call.op)[1]
            c == call.args[1].col_ix + Offset(call.op)[2]
        IN  IF 0 <= r /\ r < N_ROWS /\ 0 <= c /\ c < N_COLS
            THEN call.ret = Some([row_ix |-> r, col_ix |-> c])
            ELSE call.ret = None

\* a diagonal step was refused on its column alone: the row below exists, the
\* column to the right does not
C4_Witness ==
    /\ call.op = "southeast"
    /\ call.ret = None
    /\ call.args[1].row_ix < N_ROWS - 1
    /\ call.args[1].col_ix = N_COLS - 1

\* C5: on a vector of N_ROWS * N_COLS elements get and get_mut return the
\* element at offset row * N_COLS + col for an index inside the vector, and
\* None for an index with row >= N_ROWS or col >= N_COLS.
C5_GetAddressesRowMajor ==
    (call.op \in {"get", "get_mut"} /\ Len(data) = N_ROWS * N_COLS) =>
        LET i == call.args[1]
        IN  IF i.row_ix < N_ROWS /\ i.col_ix < N_COLS
            THEN call.ret = Some(data[i.row_ix * N_COLS + i.col_ix + 1])
            ELSE call.ret = None

\* get_mut found an element off the first row and the diagonal of 0, 1, 2, ...
C5_Witness ==
    /\ call.op = "get_mut"
    /\ is_some(call.ret)
    /\ call.args[1].row_ix > 0
    /\ call.args[1].col_ix > call.args[1].row_ix
    /\ data = Iota(N_ROWS * N_COLS)

\* C6: the all-indices iterator yields exactly N_ROWS * N_COLS coordinates and
\* then None, the k-th (from 0) being (k div N_COLS, k mod N_COLS).
C6_IndicesRowMajor ==
    iter.type \in {"iterators::V2Indices", "V2Indices"} =>
        /\ Len(out) <= N_ROWS * N_COLS
        /\ \A k \in 1..Len(out) :
              out[k] = [row_ix |-> (k - 1) \div N_COLS, col_ix |-> (k - 1) % N_COLS]
        /\ ended => Len(out) = N_ROWS * N_COLS

\* an all-indices iterator over several rows and columns was exhausted
C6_Witness ==
    /\ iter.type = "iterators::V2Indices"
    /\ ended
    /\ Len(out) = N_ROWS * N_COLS
    /\ N_ROWS > 1
    /\ N_COLS > 1

\* what the eight steps give from a centre, in the order northwest, north,
\* northeast, west, east, southwest, south, southeast, the None ones left out
EightSteps(centre) ==
    Somes(<<northwest(centre), north(centre), northeast(centre),
            west(centre), east(centre),
            southwest(centre), south(centre), southeast(centre)>>)

\* C7: Ix2Neighbors yields exactly the Some results of northwest, north,
\* northeast, west, east, southwest, south, southeast of the centre, in that
\* order, and then None: 8 items for an interior centre, fewer at the edges
\* (on 3x3, centre (1,0) gives (0,0),(0,1),(1,1),(2,0),(2,1)).
C7_NeighborsInOrder ==
    iter.type = "Ix2Neighbors" =>
        LET s == iter.start
            interior == /\ 0 < s.row_ix /\ s.row_ix < N_ROWS - 1
                        /\ 0 < s.col_ix /\ s.col_ix < N_COLS - 1
        IN  /\ IsPrefix(out, EightSteps(s))
            /\ ended => out = EightSteps(s)
            /\ Len(out) <= 8
            /\ ended => (Len(out) = 8 <=> interior)
            /\ (ended /\ N_ROWS = 3 /\ N_COLS = 3 /\ s = BoundedIx2(1, 0)) =>
                  out = <<BoundedIx2(0, 0), BoundedIx2(0, 1), BoundedIx2(1, 1),
                          BoundedIx2(2, 0), BoundedIx2(2, 1)>>

\* the neighbours of a centre on the last column, off the first and last row,
\* were all taken
C7_Witness ==
    /\ iter.type = "Ix2Neighbors"
    /\ ended
    /\ iter.start.col_ix = N_COLS - 1
    /\ 0 < iter.start.row_ix
    /\ iter.start.row_ix < N_ROWS - 1
    /\ Len(out) = 5

\* the element of the vector at a coordinate
At(i) == data[i.row_ix * N_COLS + i.col_ix + 1]

\* C8: neighbors_of(centre) yields exactly the stored values at the
\* coordinates the eight-neighbour coordinate iterator yields for that centre,
\* in the same order, for every in-range centre, those of the first and last
\* row and column included.
C8_NeighborsOfMatchesIx2Neighbors ==
    iter.type = "V2Neighbors" =>
        LET centre == BoundedIx2(iter.center_row_ix, iter.center_col_ix)
            expected == [k \in 1..Len(EightSteps(centre)) |-> At(EightSteps(centre)[k])]
        IN  /\ status = "running"
            /\ IsPrefix(out, expected)
            /\ ended => out = expected

\* C9: the iterator of neighbors_of is finite: it yields at most 8 values and
\* then None, and every call of next() returns.
C9_NeighborsOfFinite ==
    iter.type = "V2Neighbors" =>
        /\ status # "hung"
        /\ Len(out) <= 8

\* C10: cardinal_neighbors_of(centre) yields the elements at offsets
\* (r-1)*C + c, r*C + (c+1), (r+1)*C + c, r*C + (c-1) (north, east, south,
\* west), in that order, the directions that leave the grid left out.
C10_CardinalNeighborsOfNESW ==
    iter.type = "V2CardinalNeighbors" =>
        LET r == iter.center_row_ix
            c == iter.center_col_ix
            C == N_COLS
            offsets == Somes(<<IF r > 0 THEN Some((r - 1) * C + c) ELSE None,
                               IF c + 1 < C THEN Some(r * C + (c + 1)) ELSE None,
                               IF r + 1 < N_ROWS THEN Some((r + 1) * C + c) ELSE None,
                               IF c > 0 THEN Some(r * C + (c - 1)) ELSE None>>)
            expected == [k \in 1..Len(offsets) |-> data[offsets[k] + 1]]
        IN  /\ status = "running"
            /\ IsPrefix(out, expected)
            /\ ended => out = expected

\* C11: no grid iterator panics on valid input: every offset of the backing
\* sequence read by the iterators of neighbors_of, cardinal_neighbors_of, rows,
\* cols and indexed is below N_ROWS * N_COLS (a read at or beyond it panics).
C11_GridIteratorsNeverPanic ==
    iter.type \in {"V2Neighbors", "V2CardinalNeighbors", "V2Rows", "V2Cols", "V2Indexed"}
        => status # "panicked"

\* what the four cardinal steps give from a centre, in the order north, east,
\* south, west, the None ones left out
FourSteps(centre) ==
    Somes(<<north(centre), east(centre), south(centre), west(centre)>>)

\* C12: Ix2CardinalNeighbors yields exactly the Some results of north, east,
\* south, west of the centre, in that order, at most 4 items, and then None.
C12_CardinalNeighborsInOrder ==
    iter.type = "Ix2CardinalNeighbors" =>
        /\ IsPrefix(out, FourSteps(iter.start))
        /\ ended => out = FourSteps(iter.start)
        /\ Len(out) <= 4

\* the four cardinal neighbours of an interior centre were all taken
C12_Witness ==
    /\ iter.type = "Ix2CardinalNeighbors"
    /\ ended
    /\ Len(out) = 4

C20_IndexedRowMajor ==
    iter.type = "V2Indexed" =>
        /\ status = "running"
        /\ Len(out) <= N_ROWS * N_COLS
        /\ \A k \in 1..Len(out) :
              /\ out[k] = <<[row_ix |-> (k - 1) \div N_COLS, col_ix |-> (k - 1) % N_COLS],
                            data[k]>>
              /\ V2_get(data, out[k][1]) = Some(out[k][2])
        /\ ended => Len(out) = N_ROWS * N_COLS

\* indexed() over 0, 1, 2, ... in several rows and columns was exhausted
C20_Witness ==
    /\ iter.type = "V2Indexed"
    /\ ended
    /\ Len(out) = N_ROWS * N_COLS
    /\ N_ROWS > 1
    /\ N_COLS > 1
    /\ data = Iota(N_ROWS * N_COLS)

\* the calls that can reject their input, and the length each requires
Rejecting == {"V2::new", "add_row", "add_col"}

Required(op) ==
    CASE op = "V2::new" -> N_ROWS * N_COLS
      [] op = "add_row" -> N_COLS
      [] op = "add_col" -> N_ROWS

\* the flat offset of a coordinate the vector holds
OffsetOf(i) == i.row_ix * N_COLS + i.col_ix

\* C13: V2::new(data) returns Ok if and only if data.len() = R * C, and then
\* the vector holds data itself, unchanged and in order; for every other length
\* it returns a SizingError and no vector.
C13_NewChecksLength ==
    call.op = "V2::new" =>
        LET d == call.args[1]
        IN  /\ (call.ret.tag = "Ok") <=> (Len(d) = N_ROWS * N_COLS)
            /\ call.ret.tag = "Ok" => (call.ret = Ok(d) /\ data = d)
            /\ call.ret.tag # "Ok" =>
                   (call.ret.tag = "Err" /\ DOMAIN call.ret = {"tag", "expected", "actual"})

\* new accepts 0, 1, 2, 3 for a 2 x 2 vector that had been written to
C13_Witness ==
    /\ call.op = "V2::new"
    /\ call.ret = Ok(<<0, 1, 2, 3>>)
    /\ writes > 0

\* C14: in every reachable state the backing sequence has exactly rows * cols
\* elements for the current dimensions: after new, after default(), after
\* writes through mutate_at and get_mut, after add_row and add_col, chained too.
C14_LengthIsRowsTimesCols == Len(data) = N_ROWS * N_COLS

\* a 1 x 1 vector written to, then grown by a row, then by a column
C14_Witness ==
    /\ call.op = "add_col"
    /\ N_ROWS = 2
    /\ N_COLS = 2
    /\ data = <<9, 2, 1, 3>>

\* C15: when V2::new, add_row or add_col rejects its input, the SizingError
\* carries in `expected` the length that was required (R * C, C, R) and in
\* `actual` the length of the sequence the caller supplied.
C15_SizingErrorCarriesLengths ==
    (call.op \in Rejecting /\ call.ret.tag = "Err") =>
        /\ call.ret.expected = Required(call.op)
        /\ call.ret.actual = Len(call.args[1])

\* C16: add_col on an R x C vector succeeds if and only if the column has
\* exactly R elements, and else returns a SizingError; on success the result
\* is R x (C + 1) and each of its rows is the original row, in order, followed
\* by the element of the column for that row.
C16_AddColInterleaves ==
    [][call'.op = "add_col" =>
          LET col == call'.args[1]
              ok == call'.ret.tag = "Ok"
          IN  /\ ok <=> (Len(col) = N_ROWS)
              /\ ~ok => (call'.ret.tag = "Err" /\ N_ROWS' = N_ROWS /\ N_COLS' = N_COLS)
              /\ ok =>
                   /\ N_ROWS' = N_ROWS
                   /\ N_COLS' = N_COLS + 1
                   /\ call'.ret.val = data'
                   /\ Len(data') = N_ROWS * (N_COLS + 1)
                   /\ \A r \in 0..(N_ROWS - 1) :
                          /\ SubSeq(data', r * (N_COLS + 1) + 1, r * (N_COLS + 1) + N_COLS)
                                 = SubSeq(data, r * N_COLS + 1, (r + 1) * N_COLS)
                          /\ data'[r * (N_COLS + 1) + N_COLS + 1] = col[r + 1]]_vars

\* tests::test_add_col: the 3 x 3 vector of 0..8 and the column 9, 10, 11
C16_Witness ==
    /\ call.op = "add_col"
    /\ call.args = << <<9, 10, 11>>, <<0, 1, 2, 3, 4, 5, 6, 7, 8>> >>
    /\ N_ROWS = 3
    /\ N_COLS = 4
    /\ data = <<0, 1, 2, 9, 3, 4, 5, 10, 6, 7, 8, 11>>

\* C17: add_row on an R x C vector succeeds if and only if the row has exactly
\* C elements, and else returns a SizingError; on success the result is
\* (R + 1) x C, its first R * C elements are the original data unchanged and
\* its last C elements are the row, in order.
C17_AddRowAppends ==
    [][call'.op = "add_row" =>
          LET row == call'.args[1]
              ok == call'.ret.tag = "Ok"
          IN  /\ ok <=> (Len(row) = N_COLS)
              /\ ~ok => (call'.ret.tag = "Err" /\ N_ROWS' = N_ROWS /\ N_COLS' = N_COLS)
              /\ ok =>
                   /\ N_ROWS' = N_ROWS + 1
                   /\ N_COLS' = N_COLS
                   /\ call'.ret.val = data'
                   /\ Len(data') = (N_ROWS + 1) * N_COLS
                   /\ SubSeq(data', 1, N_ROWS * N_COLS) = data
                   /\ SubSeq(data', N_ROWS * N_COLS + 1, Len(data')) = row]_vars

\* a row added to a 2 x 3 vector that had been written to
C17_Witness ==
    /\ call.op = "add_row"
    /\ call.ret.tag = "Ok"
    /\ N_ROWS = 3
    /\ N_COLS = 3
    /\ writes > 0
    /\ \E k \in 1..6 : data[k] > 8
    /\ SubSeq(data, 7, 9) = call.args[1]

\* the element a reader finds at a coordinate the vector holds
Read(d, i) == V2_get(d, i).val

\* C18: a write at a coordinate the vector holds, through mutate_at or through
\* the reference of get_mut, updates exactly the element at offset
\* row * N_COLS + col and leaves every other element and the length unchanged;
\* and in a scan over the indices that reads and writes (test_owned), every
\* read finds what the writes made earlier in the scan left.
C18_WriteTouchesOneElement ==
    [][/\ (call'.op \in {"mutate_at", "get_mut_write"} /\ call'.args[1] \in Centres) =>
              LET i == call'.args[1]
                  f == call'.args[2]
              IN  /\ Len(data') = Len(data)
                  /\ data'[OffsetOf(i) + 1] = update(f, data[OffsetOf(i) + 1])
                  /\ \A k \in 1..Len(data) : k # OffsetOf(i) + 1 => data'[k] = data[k]
                  /\ \A j \in Centres :
                         Read(data', j) = IF j = i THEN update(f, Read(data, j)) ELSE Read(data, j)
       /\ (call'.op = "scan" /\ is_some(call'.ret)) =>
              LET i == call'.ret.val
                  inner == i.row_ix > 0 /\ i.col_ix > 0
                  s == Read(data, Ix2(i.row_ix, i.col_ix - 1)) + Read(data, Ix2(i.row_ix - 1, i.col_ix))
              IN  /\ Len(data') = Len(data)
                  /\ \A j \in Centres :
                         Read(data', j) = IF j = Ix2(i.row_ix, i.col_ix) /\ inner /\ s % 3 = 0
                                          THEN Read(data, j) + 10
                                          ELSE Read(data, j)]_vars

\* test_owned: the scan of the 3 x 3 vector of 0..8 has ended; it wrote 15 at
\* (1, 2), and at (2, 2) read that 15 and so wrote nothing
C18_Witness ==
    /\ call.op = "scan"
    /\ ended
    /\ N_ROWS = 3
    /\ N_COLS = 3
    /\ Len(out) = 9
    /\ data = <<0, 1, 2, 3, 4, 15, 6, 7, 8>>

\* the sequences of a sequence, one after the other
RECURSIVE Concat(_)
Concat(ss) == IF ss = <<>> THEN <<>> ELSE Head(ss) \o Concat(Tail(ss))

\* the i-th row (from 0) as rows() gives it
RowOf(i) == V2Rows_next(data, [V2Rows_new EXCEPT !.curr_row = i]).ret.val

\* C21: rows() yields exactly N_ROWS slices of length N_COLS, top to bottom,
\* with rows[i][j] = data[i * N_COLS + j], and cols() exactly N_COLS sequences
\* of length N_ROWS, left to right, with cols[j][i] = data[i * N_COLS + j]; so
\* the rows one after the other are the backing data, and cols() is the
\* transpose of rows().
C21_RowsAndCols ==
    /\ iter.type = "V2Rows" =>
          /\ status = "running"
          /\ Len(out) <= N_ROWS
          /\ \A i \in 1..Len(out) :
                /\ Len(out[i]) = N_COLS
                /\ \A j \in 1..N_COLS : out[i][j] = data[(i - 1) * N_COLS + (j - 1) + 1]
          /\ ended => (Len(out) = N_ROWS /\ Concat(out) = data)
    /\ iter.type = "V2Cols" =>
          /\ status = "running"
          /\ Len(out) <= N_COLS
          /\ \A j \in 1..Len(out) :
                /\ Len(out[j]) = N_ROWS
                /\ \A i \in 1..N_ROWS :
                      /\ out[j][i] = data[(i - 1) * N_COLS + (j - 1) + 1]
                      /\ out[j][i] = RowOf(i - 1)[j]
          /\ ended => Len(out) = N_COLS

\* cols() over 0, 1, 2, .. in more columns than rows was exhausted
C21_Witness ==
    /\ iter.type = "V2Cols"
    /\ ended
    /\ Len(out) = N_COLS
    /\ N_ROWS > 1
    /\ N_COLS > N_ROWS
    /\ data = Iota(N_ROWS * N_COLS)

\* C22: BoundedIx2Rows yields exactly N_ROWS arrays, the i-th being the
\* coordinates (i,0), (i,1), .., (i,N_COLS-1) in that order; BoundedIx2Cols
\* yields exactly N_COLS arrays, the j-th being (0,j), (1,j), .., (N_ROWS-1,j)
\* in that order; both then return None.
C22_RowAndColumnBatches ==
    /\ iter.type = "BoundedIx2Rows" =>
          /\ status = "running"
          /\ Len(out) <= N_ROWS
          /\ \A i \in 1..Len(out) :
                /\ Len(out[i]) = N_COLS
                /\ \A j \in 1..N_COLS : out[i][j] = [row_ix |-> i - 1, col_ix |-> j - 1]
          /\ ended <=> (call.op = "next" /\ call.ret = None)
          /\ ended => Len(out) = N_ROWS
    /\ iter.type = "BoundedIx2Cols" =>
          /\ status = "running"
          /\ Len(out) <= N_COLS
          /\ \A j \in 1..Len(out) :
                /\ Len(out[j]) = N_ROWS
                /\ \A i \in 1..N_ROWS : out[j][i] = [row_ix |-> i - 1, col_ix |-> j - 1]
          /\ ended <=> (call.op = "next" /\ call.ret = None)
          /\ ended => Len(out) = N_COLS

\* BoundedIx2Rows over several rows and columns was exhausted
C22_Witness ==
    /\ iter.type = "BoundedIx2Rows"
    /\ ended
    /\ Len(out) = N_ROWS
    /\ N_ROWS > 1
    /\ N_COLS > N_ROWS

\* the row-major lexicographic comparison of two coordinates
Lex(a, b) ==
    IF a.row_ix < b.row_ix THEN "Less"
    ELSE IF a.row_ix > b.row_ix THEN "Greater"
    ELSE IF a.col_ix < b.col_ix THEN "Less"
    ELSE IF a.col_ix > b.col_ix THEN "Greater"
    ELSE "Equal"

Reverse(o) == CASE o = "Less" -> "Greater" [] o = "Greater" -> "Less" [] o = "Equal" -> "Equal"

\* C23: the ordering of coordinates is the row-major lexicographic total
\* order: a.cmp(b) is Less if a.row < b.row, Greater if a.row > b.row, and
\* otherwise the comparison of the cols; it is Equal exactly when row and col
\* match, as == says; partial_cmp returns Some of the same result.
C23_OrderIsRowMajor ==
    /\ call.op = "cmp" =>
          LET a == call.args[1]
              b == call.args[2]
          IN  /\ call.ret = Lex(a, b)
              /\ (call.ret = "Equal") <=> (a = b)
              /\ (call.ret = "Equal") <=> eq(a, b)
              /\ cmp(b, a) = Reverse(call.ret)
              /\ \A c \in Coordinates :
                     (call.ret = "Less" /\ cmp(b, c) = "Less") => cmp(a, c) = "Less"
    /\ call.op = "partial_cmp" => call.ret = Some(Lex(call.args[1], call.args[2]))
    /\ call.op = "eq" =>
          /\ call.ret = (call.args[1] = call.args[2])
          /\ call.ret <=> (Lex(call.args[1], call.args[2]) = "Equal")

\* the caller's coordinate has the larger row and the smaller col
C23_Witness ==
    /\ call.op = "cmp"
    /\ call.args[1].row_ix > call.args[2].row_ix
    /\ call.args[1].col_ix < call.args[2].col_ix
    /\ call.ret = "Greater"

\* C24: mutate_at agrees with get about which indices address an element: for
\* an index with row >= N_ROWS or col >= N_COLS, for which get returns None,
\* mutate_at does not invoke the updater and leaves every element unchanged.
C24_MutateAtAgreesWithGet ==
    [][(call'.op = "mutate_at" /\ V2_get(data, call'.args[1]) = None) => data' = data]_vars

Inverse(m) ==
    CASE m = "north" -> "south"
      [] m = "south" -> "north"
      [] m = "east" -> "west"
      [] m = "west" -> "east"
      [] m = "northeast" -> "southwest"
      [] m = "southwest" -> "northeast"
      [] m = "northwest" -> "southeast"
      [] m = "southeast" -> "northwest"

\* the two single-axis steps of a diagonal, taken one after the other
ThenStep(o, m) == IF is_some(o) THEN step(m, o.val) ELSE None

RowStep(m) == IF m \in {"northeast", "northwest"} THEN "north" ELSE "south"

ColStep(m) == IF m \in {"northeast", "southeast"} THEN "east" ELSE "west"

\* C26: the directional steps of BoundedIx2 are mutually inverse: if a step
\* from a gives Some(b), the opposite step from b gives Some(a) (north/south,
\* east/west, northeast/southwest, northwest/southeast); and a diagonal step
\* whose target is in range equals its two single-axis steps in either order.
C26_StepsAreInverse ==
    call.op \in Directions =>
        LET a == call.args[1]
            m == call.op
        IN  /\ is_some(call.ret) => step(Inverse(m), call.ret.val) = Some(a)
            /\ is_some(step(Inverse(m), a)) =>
                   step(m, step(Inverse(m), a).val) = Some(a)
            /\ (m \in {"northeast", "northwest", "southeast", "southwest"}
                  /\ in_bounds(BoundedIx2(a.row_ix + Offset(m)[1], a.col_ix + Offset(m)[2]))
                  /\ a.row_ix + Offset(m)[1] >= 0
                  /\ a.col_ix + Offset(m)[2] >= 0) =>
                   /\ is_some(call.ret)
                   /\ call.ret = ThenStep(step(RowStep(m), a), ColStep(m))
                   /\ call.ret = ThenStep(step(ColStep(m), a), RowStep(m))

\* a diagonal step from the third row or below to a coordinate off the first
\* column
C26_Witness ==
    /\ call.op = "northwest"
    /\ is_some(call.ret)
    /\ call.ret.val.col_ix > 0
    /\ call.args[1].row_ix > 1

\* all that an Ix2Neighbors iterator yields from `self` on
RECURSIVE Collect(_)
Collect(self) ==
    LET n == Ix2Neighbors_next(self)
    IN  IF is_some(n.ret) THEN <<n.ret.val>> \o Collect(n.self) ELSE <<>>

Range(s) == {s[k] : k \in 1..Len(s)}

\* the coordinates next to a centre: row and col each differ by at most 1
Adjacent(centre) ==
    {c \in Coordinates :
        /\ c # centre
        /\ c.row_ix - centre.row_ix \in {-1, 0, 1}
        /\ c.col_ix - centre.col_ix \in {-1, 0, 1}}

\* C27: what Ix2Neighbors yields for a centre is strictly increasing in the
\* ordering of coordinates (so without duplicates), never contains the centre,
\* and is exactly the set of coordinates of the grid whose row and col each
\* differ from the centre's by at most 1; so b is a neighbour of a if and only
\* if a is a neighbour of b.
C27_NeighborsSortedAndSymmetric ==
    iter.type = "Ix2Neighbors" =>
        LET a == iter.start
        IN  /\ \A k \in 1..Len(out) : \A l \in (k + 1)..Len(out) :
                   cmp(out[k], out[l]) = "Less"
            /\ a \notin Range(out)
            /\ Range(out) \subseteq Adjacent(a)
            /\ ended => Range(out) = Adjacent(a)
            /\ \A b \in Coordinates :
                   (b \in Range(Collect(Ix2Neighbors_new(a))))
                       <=> (a \in Range(Collect(Ix2Neighbors_new(b))))

\* all eight neighbours of an interior centre were yielded
C27_Witness ==
    /\ iter.type = "Ix2Neighbors"
    /\ ended
    /\ Len(out) = 8
    /\ iter.start.row_ix > 0
    /\ iter.start.col_ix > 0

====
